---- MODULE Spec2Model ----
(***************************************************************************)
(* Model of buildcat/build.py: the build criteria Always, Never,           *)
(* Nonexistent and Outdated, each deciding through                         *)
(* outdated(environment, inputs, outputs) whether the outputs of an action *)
(* have to be built.                                                       *)
(*                                                                         *)
(* A target is modelled by what its two queries answer in the environment  *)
(* of the call: exists(environment) and timestamp(environment).  A target  *)
(* answers the same way for the whole call.  A query may also fail (raise),*)
(* which is a step of its own.  Every query the code performs is recorded  *)
(* in `queries`, naming the sequence and the position of the target that   *)
(* was asked.                                                              *)
(***************************************************************************)
EXTENDS Integers, Sequences, FiniteSets, TLC

\* ---- bounds of the model
MaxInputs == 2
MaxOutputs == 2
MaxTime == 1

\* ---- values
None == -1
Timestamps == 0..MaxTime
NoResult == "unset"
CriteriaClasses == {"Always", "Never", "Nonexistent", "Outdated"}

\* what a target answers to exists(environment) and timestamp(environment)
Target == [exists : BOOLEAN, timestamp : Timestamps \cup {None}]

RECURSIVE SeqsUpTo(_, _)
SeqsUpTo(S, n) ==
    IF n = 0 THEN {<<>>}
    ELSE LET shorter == SeqsUpTo(S, n - 1)
         IN  shorter \cup {Append(s, x) : s \in {t \in shorter : Len(t) = n - 1}, x \in S}

VARIABLES
    criteria,          \* the class of the criteria object
    inputs,            \* argument `inputs` of the call
    outputs,           \* argument `outputs` of the call
    pc,                \* position of the call
    o,                 \* position of `node` in outputs
    i,                 \* position of `inode` in inputs
    output_timestamp,  \* local of Outdated.outdated
    result,            \* the value returned, NoResult while there is none
    queries            \* the target queries performed so far, in order

vars == <<criteria, inputs, outputs, pc, o, i, output_timestamp, result, queries>>

\* ---- target queries
Query(kind, side, index, ok) == [kind |-> kind, side |-> side, index |-> index, ok |-> ok]

Node == outputs[o]

\* `not node.exists(environment)`
Missing(node) == ~node.exists

IsNewerOrEqual(input_timestamp, out_timestamp) == input_timestamp >= out_timestamp

\* `input_timestamp > output_timestamp`
IsNewer(input_timestamp, out_timestamp) == input_timestamp > out_timestamp

InnerLoopTargetInode == [side |-> "inputs", index |-> i]

\* the target whose timestamp the inner loop of Outdated.outdated reads
InnerLoopTarget == [side |-> "outputs", index |-> o]

TargetAt(ref) == IF ref.side = "outputs" THEN outputs[ref.index] ELSE inputs[ref.index]

Return(value) ==
    /\ result' = value
    /\ pc' = "done"

Init ==
    /\ criteria \in CriteriaClasses
    /\ inputs = <<>>
    /\ outputs = <<>>
    /\ pc = "idle"
    /\ o = 1
    /\ i = 1
    /\ output_timestamp = None
    /\ result = NoResult
    /\ queries = <<>>

\* the caller invokes criteria.outdated(environment, inputs, outputs)
Call ==
    /\ pc = "idle"
    /\ \E ins \in SeqsUpTo(Target, MaxInputs), outs \in SeqsUpTo(Target, MaxOutputs) :
          /\ inputs' = ins
          /\ outputs' = outs
    /\ pc' = "for_node"
    /\ o' = 1
    /\ UNCHANGED <<criteria, i, output_timestamp, result, queries>>

AlwaysOutdated ==
    /\ criteria = "Always"
    /\ pc = "for_node"
    /\ Return("True")
    /\ UNCHANGED <<criteria, inputs, outputs, o, i, output_timestamp, queries>>

NeverOutdatedReturnsTrue ==
    /\ criteria = "Never"
    /\ pc = "for_node"
    /\ Return("True")
    /\ UNCHANGED <<criteria, inputs, outputs, o, i, output_timestamp, queries>>

NeverOutdated ==
    /\ criteria = "Never"
    /\ pc = "for_node"
    /\ Return("False")
    /\ UNCHANGED <<criteria, inputs, outputs, o, i, output_timestamp, queries>>

NonexistentNodeFirstOnly ==
    /\ criteria = "Nonexistent"
    /\ pc = "for_node"
    /\ o <= Len(outputs)
    /\ queries' = Append(queries, Query("exists", "outputs", o, TRUE))
    /\ IF Missing(Node) THEN Return("True") ELSE Return("False")
    /\ UNCHANGED <<criteria, inputs, outputs, o, i, output_timestamp>>

\* one iteration of `for node in outputs` of Nonexistent.outdated
NonexistentNode ==
    /\ criteria = "Nonexistent"
    /\ pc = "for_node"
    /\ o <= Len(outputs)
    /\ queries' = Append(queries, Query("exists", "outputs", o, TRUE))
    /\ IF Missing(Node)
          THEN Return("True") /\ o' = o
          ELSE o' = o + 1 /\ UNCHANGED <<pc, result>>
    /\ UNCHANGED <<criteria, inputs, outputs, i, output_timestamp>>

\* the loop of Nonexistent.outdated is exhausted
NonexistentReturn ==
    /\ criteria = "Nonexistent"
    /\ pc = "for_node"
    /\ o > Len(outputs)
    /\ Return("False")
    /\ UNCHANGED <<criteria, inputs, outputs, o, i, output_timestamp, queries>>

\* `if not node.exists(environment): return True` of Outdated.outdated
OutdatedExists ==
    /\ criteria = "Outdated"
    /\ pc = "for_node"
    /\ o <= Len(outputs)
    /\ queries' = Append(queries, Query("exists", "outputs", o, TRUE))
    /\ IF Missing(Node)
          THEN Return("True")
          ELSE pc' = "output_timestamp" /\ UNCHANGED result
    /\ UNCHANGED <<criteria, inputs, outputs, o, i, output_timestamp>>

OutdatedOutputTimestampUntested ==
    /\ criteria = "Outdated"
    /\ pc = "output_timestamp"
    /\ queries' = Append(queries, Query("timestamp", "outputs", o, TRUE))
    /\ output_timestamp' = Node.timestamp
    /\ pc' = "for_inode"
    /\ i' = 1
    /\ UNCHANGED <<criteria, inputs, outputs, o, result>>

\* `output_timestamp = node.timestamp(environment)` and its None test
OutdatedOutputTimestamp ==
    /\ criteria = "Outdated"
    /\ pc = "output_timestamp"
    /\ queries' = Append(queries, Query("timestamp", "outputs", o, TRUE))
    /\ output_timestamp' = Node.timestamp
    /\ IF output_timestamp' = None
          THEN Return("True") /\ i' = i
          ELSE pc' = "for_inode" /\ i' = 1 /\ UNCHANGED result
    /\ UNCHANGED <<criteria, inputs, outputs, o>>

\* one iteration of `for inode in inputs`
OutdatedInputTimestamp ==
    /\ criteria = "Outdated"
    /\ pc = "for_inode"
    /\ i <= Len(inputs)
    /\ LET ref == InnerLoopTarget
           input_timestamp == TargetAt(ref).timestamp
       IN  /\ queries' = Append(queries, Query("timestamp", ref.side, ref.index, TRUE))
           /\ IF input_timestamp = None
                 THEN Return("True") /\ i' = i
                 ELSE IF IsNewer(input_timestamp, output_timestamp)
                         THEN Return("True") /\ i' = i
                         ELSE i' = i + 1 /\ UNCHANGED <<pc, result>>
    /\ UNCHANGED <<criteria, inputs, outputs, o, output_timestamp>>

OutdatedNextNodeReturns ==
    /\ criteria = "Outdated"
    /\ pc = "for_inode"
    /\ i > Len(inputs)
    /\ Return("False")
    /\ UNCHANGED <<criteria, inputs, outputs, o, i, output_timestamp, queries>>

\* the inner loop is exhausted: on to the next output
OutdatedNextNode ==
    /\ criteria = "Outdated"
    /\ pc = "for_inode"
    /\ i > Len(inputs)
    /\ o' = o + 1
    /\ pc' = "for_node"
    /\ UNCHANGED <<criteria, inputs, outputs, i, output_timestamp, result, queries>>

OutdatedReturnTrue ==
    /\ criteria = "Outdated"
    /\ pc = "for_node"
    /\ o > Len(outputs)
    /\ Return("True")
    /\ UNCHANGED <<criteria, inputs, outputs, o, i, output_timestamp, queries>>

\* the outer loop is exhausted: `return False`
OutdatedReturn ==
    /\ criteria = "Outdated"
    /\ pc = "for_node"
    /\ o > Len(outputs)
    /\ Return("False")
    /\ UNCHANGED <<criteria, inputs, outputs, o, i, output_timestamp, queries>>

\* the query the call is about to perform, if any
AtExistsQuery ==
    /\ criteria \in {"Nonexistent", "Outdated"}
    /\ pc = "for_node"
    /\ o <= Len(outputs)

AtOutputTimestampQuery == criteria = "Outdated" /\ pc = "output_timestamp"

AtInputTimestampQuery == criteria = "Outdated" /\ pc = "for_inode" /\ i <= Len(inputs)

PendingQuery ==
    IF AtExistsQuery THEN Query("exists", "outputs", o, FALSE)
    ELSE IF AtOutputTimestampQuery THEN Query("timestamp", "outputs", o, FALSE)
    ELSE Query("timestamp", InnerLoopTarget.side, InnerLoopTarget.index, FALSE)

Swallow ==
    /\ pc' = "done"
    /\ result' = "False"

\* no try/except anywhere in outdated: the exception leaves the call
Propagate ==
    /\ pc' = "raised"
    /\ result' = NoResult

\* a target query raises
LookupFailure ==
    /\ AtExistsQuery \/ AtOutputTimestampQuery \/ AtInputTimestampQuery
    /\ queries' = Append(queries, PendingQuery)
    /\ Propagate
    /\ UNCHANGED <<criteria, inputs, outputs, o, i, output_timestamp>>

Next ==
    \/ Call
    \/ AlwaysOutdated
    \/ NeverOutdated
    \/ NonexistentNode
    \/ NonexistentReturn
    \/ OutdatedExists
    \/ OutdatedOutputTimestamp
    \/ OutdatedInputTimestamp
    \/ OutdatedNextNode
    \/ OutdatedReturn
    \/ LookupFailure

Spec == Init /\ [][Next]_vars

TypeOK ==
    /\ criteria \in CriteriaClasses
    /\ pc \in {"idle", "for_node", "output_timestamp", "for_inode", "done", "raised"}
    /\ result \in {NoResult, "True", "False"}
    /\ o \in 1..(MaxOutputs + 1)
    /\ i \in 1..(MaxInputs + 1)
    /\ output_timestamp \in Timestamps \cup {None}
\* ---- properties

Returned == pc = "done"

OutputKnown(k) == outputs[k].exists /\ outputs[k].timestamp # None
AllOutputsKnown == \A k \in DOMAIN outputs : OutputKnown(k)
AllInputsKnown == \A k \in DOMAIN inputs : inputs[k].timestamp # None
SomeOutputMissing == \E k \in DOMAIN outputs : ~outputs[k].exists
SomeExistingOutputUnknown ==
    \E k \in DOMAIN outputs : outputs[k].exists /\ outputs[k].timestamp = None
SomeInputUnknown == \E k \in DOMAIN inputs : inputs[k].timestamp = None
SomeInputNewer ==
    \E k \in DOMAIN outputs : \E j \in DOMAIN inputs :
        inputs[j].timestamp > outputs[k].timestamp
Failed == \E k \in DOMAIN queries : ~queries[k].ok

\* C1: when Outdated.outdated returns and every output exists with a known
\* timestamp and every input has a known timestamp, the result is True
\* exactly when some input's timestamp is strictly greater than some
\* output's timestamp.
C1_NewerInputIsOutdated ==
    (criteria = "Outdated" /\ Returned /\ AllOutputsKnown /\ AllInputsKnown)
        => (result = "True" <=> SomeInputNewer)

\* C2: when Outdated.outdated returns from a call with at least one output
\* and some existing output or some input has the timestamp None, the result
\* is True.
C2_UnknownTimestampIsOutdated ==
    (criteria = "Outdated" /\ Returned /\ Len(outputs) >= 1
        /\ (SomeExistingOutputUnknown \/ SomeInputUnknown))
        => result = "True"

\* C3: when Outdated.outdated returns and some output, at any position, does
\* not exist, the result is True.
C3_MissingOutputIsOutdated ==
    (criteria = "Outdated" /\ Returned /\ SomeOutputMissing) => result = "True"

C3_Witness ==
    /\ criteria = "Outdated" /\ Returned
    /\ Len(outputs) = 2 /\ OutputKnown(1) /\ ~outputs[2].exists
    /\ Len(inputs) >= 1 /\ AllInputsKnown
    /\ result = "True"

\* C4: when Nonexistent.outdated returns, the result is True exactly when
\* some output does not exist; nothing about the inputs and no timestamp of
\* an output enters the result.
C4_NonexistentIffMissing ==
    (criteria = "Nonexistent" /\ Returned)
        => (result = "True" <=> SomeOutputMissing)

C4_Witness ==
    /\ criteria = "Nonexistent" /\ Returned
    /\ Len(outputs) = 2 /\ outputs[1].exists /\ ~outputs[2].exists
    /\ outputs[1].timestamp = None
    /\ Len(inputs) >= 1 /\ SomeInputUnknown
    /\ result = "True"

\* C5: a call with no outputs never ends in an error, whatever the criteria
\* and the inputs, and Outdated.outdated and Nonexistent.outdated return
\* False from it.
C5_NoOutputs ==
    (pc # "idle" /\ outputs = <<>>)
        => /\ pc # "raised"
           /\ (Returned /\ criteria \in {"Outdated", "Nonexistent"}) => result = "False"

C5_Witness ==
    /\ criteria = "Outdated" /\ Returned
    /\ outputs = <<>>
    /\ Len(inputs) >= 1 /\ ~inputs[1].exists /\ inputs[1].timestamp = None
    /\ result = "False"

\* C6: when Outdated.outdated returns from a call with no inputs, the result
\* is True exactly when some output does not exist or some existing output
\* has the timestamp None.
C6_NoInputs ==
    (criteria = "Outdated" /\ Returned /\ inputs = <<>>)
        => (result = "True" <=> (SomeOutputMissing \/ SomeExistingOutputUnknown))

C6_Witness ==
    /\ criteria = "Outdated" /\ Returned
    /\ inputs = <<>>
    /\ Len(outputs) >= 1 /\ outputs[Len(outputs)].exists
    /\ outputs[Len(outputs)].timestamp = None
    /\ result = "True"

\* C7: when Outdated.outdated returns and every output exists with a known
\* timestamp and every input has a known timestamp less than or equal to
\* every output's timestamp, the result is False.
C7_TiesAreNotOutdated ==
    (criteria = "Outdated" /\ Returned /\ AllOutputsKnown /\ AllInputsKnown
        /\ ~SomeInputNewer)
        => result = "False"

C7_Witness ==
    /\ criteria = "Outdated" /\ Returned
    /\ Len(outputs) >= 1 /\ AllOutputsKnown
    /\ Len(inputs) >= 1 /\ AllInputsKnown
    /\ inputs[1].timestamp = outputs[1].timestamp
    /\ ~SomeInputNewer
    /\ result = "False"

\* C8: Always.outdated returns True and Never.outdated returns False for
\* every inputs and outputs, and neither performs a target query.
C8_ConstantCriteria ==
    /\ criteria \in {"Always", "Never"} => queries = <<>> /\ pc # "raised"
    /\ (criteria = "Always" /\ Returned) => result = "True"
    /\ (criteria = "Never" /\ Returned) => result = "False"

C8_Witness ==
    /\ criteria = "Never" /\ Returned
    /\ Len(outputs) >= 1 /\ SomeOutputMissing
    /\ Len(inputs) >= 1
    /\ result = "False"

\* C9: once a target query of Nonexistent.outdated or Outdated.outdated has
\* failed, the call has ended in that failure: it has returned no value, and
\* the failed query is the last query performed.
C9_FailurePropagates ==
    Failed => /\ pc = "raised"
              /\ result = NoResult
              /\ \A k \in DOMAIN queries : ~queries[k].ok => k = Len(queries)

C9_Witness ==
    /\ criteria = "Outdated" /\ pc = "raised" /\ Failed
    /\ Len(queries) >= 3
    /\ AllOutputsKnown /\ AllInputsKnown

====
